---- MODULE Spec2Model ----
(***************************************************************************)
(* Model of the Composer live-vs-simulation scripts:                       *)
(*   530symphs.py          process_and_merge_data (union + forward fill)   *)
(*   all_symphs_monthly.py process_and_merge_data (dictionary merge)       *)
(*   zscore.py             get_backtest_pnl_series, get_live_pnl,          *)
(*                         calculate_z_score, main                         *)
(*                                                                         *)
(* Encodings.                                                              *)
(*   - A date string 'YYYY-MM-DD' is the triple <<y, m, d>>; Python's      *)
(*     string comparison of two such strings is the lexicographic order    *)
(*     of the triples (StrLess).                                           *)
(*   - A day-offset key such as "10" is its sequence of digits <<1, 0>>;   *)
(*     int(key) is IntOf.                                                  *)
(*   - A float is an exact fraction <<n, d>> in lowest terms, d > 0.       *)
(*     A blank cell ('' in 530symphs.py, None in all_symphs_monthly.py)    *)
(*     is the empty tuple.  Any other variable that is None or a value v   *)
(*     is the empty tuple or <<v>>.                                        *)
(*   - A z-score is sign * sqrt(sq) for a fraction sq, the record          *)
(*     [sign, sq]; the standard deviation is such a number too;            *)
(*     float('inf') has sq = <<1, 0>>.                                     *)
(*   - A dict is a sequence of <<key, value>> pairs in insertion order     *)
(*     when the code iterates it, and a function when the code only looks  *)
(*     keys up.                                                            *)
(*   - TLC integers are 32 bit, so epoch milliseconds are drawn from the   *)
(*     first days of 1970 and the cutoff dates with them.                  *)
(***************************************************************************)
EXTENDS Integers, Sequences, FiniteSets, TLC

VARIABLES
    live_data,          \* parsed live payload, or absent
    backtest_data,      \* parsed backtest payload, or absent
    symphony_id,        \* the strategy id the payloads were requested for
    start_date_filter,  \* cutoff date string
    utcoffset,          \* local UTC offset of the executing machine, hours
    final_data,         \* rows returned by process_and_merge_data
    called,             \* which process_and_merge_data produced final_data
    idx,                \* batch loops: position in the list of strategies
    pc,                 \* batch loops: position inside the loop body
    backtest_pnl_series,\* zscore.main: result of get_backtest_pnl_series
    live_value,         \* zscore.main: result of get_live_pnl
    results,            \* zscore.main: list of result records
    most_deviant_symphs,\* zscore.main: the ranking
    fetched,            \* history: per strategy, what the two fetches returned
    all_rows,           \* run_main_logic: rows collected over the strategies
    steps               \* history: the fetches, computations and pauses made

vars == <<live_data, backtest_data, symphony_id, start_date_filter, utcoffset,
          final_data, called, idx, pc, backtest_pnl_series, live_value,
          results, most_deviant_symphs, fetched, all_rows, steps>>

(***************************************************************************)
(* Bounds of the model.                                                    *)
(***************************************************************************)
MaxSamples == 2
MaxPoints == 2
MaxCapitalPoints == 3
MaxOffset == 60

(***************************************************************************)
(* Program constants and the small input domains.                          *)
(***************************************************************************)
SymphonyIds == <<"OLmQh1J0ePZof2F2nEn9", "RFgmUeWk5UgRLVb6s0tQ">>
Benchmark == "SPY"
FixedBacktestBaseline == 10000
MsPerSecond == 1000

None == <<>>
Blank == <<>>

\* 1970-01-01T00:00Z, 1970-01-10T00:00Z, 1970-01-10T12:00Z
EpochMs == {0, 777600000, 820800000}
Valuations == {0, 100}
\* "0", "9", "10": 1970-01-01, 1970-01-10, 1970-01-11
DayKeys == {<<0>>, <<9>>, <<1, 0>>}
Capitals == {0, 9000}
UtcOffsets == {-5, 0}
Cutoffs == {<<1970, 1, 1>>, <<1970, 1, 10>>}
\* the payloads zscore.py is run on
ZEpochMs == {0, 777600000}
ZValuations == {10, 12}
ZCapitals == {10, 11}

(***************************************************************************)
(* Generic helpers.                                                        *)
(***************************************************************************)
Range(s) == {s[i] : i \in 1..Len(s)}

Abs(x) == IF x < 0 THEN -x ELSE x

RECURSIVE Gcd(_, _)
Gcd(a, b) == IF b = 0 THEN a ELSE Gcd(b, a % b)

\* the float n/d as an exact fraction in lowest terms (d > 0)
Frac(n, d) ==
    LET g == Gcd(Abs(n), d) IN <<n \div g, d \div g>>

\* value / baseline - 1
PctReturn(value, baseline) == Frac(value - baseline, baseline)

\* comparison of two 'YYYY-MM-DD' strings
StrLess(a, b) ==
    \/ a[1] < b[1]
    \/ a[1] = b[1] /\ a[2] < b[2]
    \/ a[1] = b[1] /\ a[2] = b[2] /\ a[3] < b[3]

StrGeq(a, b) == ~StrLess(a, b)

\* a conversion that takes 1970-01-01 for day 1, not day 0
DateOfDays_FromOne(n) ==
    LET z == n + 719467
        era == z \div 146097
        doe == z - era * 146097
        yoe == (doe - doe \div 1460 + doe \div 36524 - doe \div 146096) \div 365
        doy == doe - (365 * yoe + yoe \div 4 - yoe \div 100)
        mp == (5 * doy + 2) \div 153
        d == doy - (153 * mp + 2) \div 5 + 1
        m == IF mp < 10 THEN mp + 3 ELSE mp - 9
        y == yoe + era * 400 + (IF m <= 2 THEN 1 ELSE 0)
    IN <<y, m, d>>

\* date(1970, 1, 1) + timedelta(days = n), formatted as 'YYYY-MM-DD'
DateOfDays(n) ==
    LET z == n + 719468
        era == z \div 146097
        doe == z - era * 146097
        yoe == (doe - doe \div 1460 + doe \div 36524 - doe \div 146096) \div 365
        doy == doe - (365 * yoe + yoe \div 4 - yoe \div 100)
        mp == (5 * doy + 2) \div 153
        d == doy - (153 * mp + 2) \div 5 + 1
        m == IF mp < 10 THEN mp + 3 ELSE mp - 9
        y == yoe + era * 400 + (IF m <= 2 THEN 1 ELSE 0)
    IN <<y, m, d>>

\* int(day_key)
RECURSIVE IntOf(_)
IntOf(key) ==
    IF Len(key) = 0 THEN 0
    ELSE 10 * IntOf(SubSeq(key, 1, Len(key) - 1)) + key[Len(key)]

\* datetime.fromtimestamp(ms / 1000).strftime('%Y-%m-%d') on a machine whose
\* local zone is off hours ahead of UTC
LocalDateStr(ms, off) ==
    DateOfDays(((ms \div MsPerSecond) + off * 3600) \div 86400)

\* datetime.utcfromtimestamp(ms / 1000).strftime('%Y-%m-%d')
UtcDateStr(ms) == DateOfDays((ms \div MsPerSecond) \div 86400)

\* zip(a, b)
Zip(a, b) ==
    LET n == IF Len(a) < Len(b) THEN Len(a) ELSE Len(b)
    IN [i \in 1..n |-> <<a[i], b[i]>>]

\* tuple comparison of (timestamp, value) pairs
PairLess(p, q) == p[1] < q[1] \/ (p[1] = q[1] /\ p[2] < q[2])

\* sorted(...) of a list of (timestamp, value) pairs
RECURSIVE SortedPairs(_)
SortedPairs(s) ==
    IF Len(s) = 0 THEN <<>>
    ELSE LET i == CHOOSE k \in 1..Len(s) :
                      \A j \in 1..Len(s) : ~PairLess(s[j], s[k])
             rest == [j \in 1..(Len(s) - 1) |-> IF j < i THEN s[j] ELSE s[j + 1]]
         IN <<s[i]>> \o SortedPairs(rest)

\* sorted(...) of a set of date strings
RECURSIVE SortedDates(_)
SortedDates(S) ==
    IF S = {} THEN <<>>
    ELSE LET m == CHOOSE x \in S : \A y \in S : ~StrLess(y, x)
         IN <<m>> \o SortedDates(S \ {m})

(***************************************************************************)
(* Dictionaries.                                                           *)
(***************************************************************************)
EmptyDict == [x \in {} |-> None]

\* d[k] = v
DictPut(d, k, v) == [x \in (DOMAIN d) \cup {k} |-> IF x = k THEN v ELSE d[x]]

\* d.get(k)
DictGet(d, k) == IF k \in DOMAIN d THEN d[k] ELSE None

\* keys of an insertion-ordered dict, in order
OrderedKeys(od) == [i \in 1..Len(od) |-> od[i][1]]

\* k in od
HasKey(od, k) == \E i \in 1..Len(od) : od[i][1] = k

\* od[k]
Lookup(od, k) == od[CHOOSE i \in 1..Len(od) : od[i][1] = k][2]

(***************************************************************************)
(* Payloads.                                                               *)
(*   live:     {epoch_ms: [...], deposit_adjusted_series: [...]} or absent *)
(*   backtest: {dvm_capital: {id: {day_key: capital}}} or absent           *)
(* "fields" is the set of top-level keys the parsed JSON object has.       *)
(***************************************************************************)
LiveAbsent ==
    [present |-> FALSE, fields |-> {}, epoch_ms |-> <<>>,
     deposit_adjusted_series |-> <<>>]

LivePayload(fields, points) ==
    [present |-> TRUE, fields |-> fields,
     epoch_ms |-> [i \in 1..Len(points) |-> points[i][1]],
     deposit_adjusted_series |-> [i \in 1..Len(points) |-> points[i][2]]]

BacktestAbsent == [present |-> FALSE, fields |-> {}, dvm_capital |-> <<>>]

BacktestPayload(fields, dvm) ==
    [present |-> TRUE, fields |-> fields, dvm_capital |-> dvm]

\* live_data and 'epoch_ms' in live_data and 'deposit_adjusted_series' in live_data
LiveUsable(ld) ==
    /\ ld.present
    /\ "epoch_ms" \in ld.fields
    /\ "deposit_adjusted_series" \in ld.fields

\* backtest_data and 'dvm_capital' in backtest_data
BacktestUsable(bd) == bd.present /\ "dvm_capital" \in bd.fields

(***************************************************************************)
(* 530symphs.py, process_and_merge_data.                                   *)
(***************************************************************************)
\* line 84
LivePoints(ld) == SortedPairs(Zip(ld.epoch_ms, ld.deposit_adjusted_series))

\* line 89
LiveDateStr530(ms, off) == LocalDateStr(ms, off)

\* lines 88-90: the loop over live_points from position i on
RECURSIVE LiveLoop530(_, _, _, _, _)
LiveLoop530(points, i, live_baseline, off, acc) ==
    IF i > Len(points) THEN acc
    ELSE LiveLoop530(points, i + 1, live_baseline, off,
             DictPut(acc, LiveDateStr530(points[i][1], off),
                     PctReturn(points[i][2], live_baseline)))

\* lines 83-90
LivePctByDate530(ld, off) ==
    IF ~LiveUsable(ld) THEN EmptyDict
    ELSE LET live_points == LivePoints(ld)
         IN IF Len(live_points) > 0 /\ live_points[1][2] > 0
            THEN LiveLoop530(live_points, 1, live_points[1][2], off, EmptyDict)
            ELSE EmptyDict

\* lines 94-99: the key the backtest series is read from
SymphonyKey530(dvm, sid) ==
    IF HasKey(dvm, sid) THEN sid
    ELSE IF \E i \in 1..Len(dvm) : dvm[i][1] # Benchmark
         THEN dvm[CHOOSE i \in 1..Len(dvm) :
                    /\ dvm[i][1] # Benchmark
                    /\ \A j \in 1..(i - 1) : dvm[j][1] = Benchmark][1]
         ELSE sid

\* line 103
BacktestBaseline530(timeseries) == FixedBacktestBaseline

\* lines 104-107: the loop over symphony_timeseries.items() from position i on
RECURSIVE BacktestLoop530(_, _, _, _)
BacktestLoop530(timeseries, i, backtest_baseline, acc) ==
    IF i > Len(timeseries) THEN acc
    ELSE BacktestLoop530(timeseries, i + 1, backtest_baseline,
             DictPut(acc, DateOfDays(IntOf(timeseries[i][1])),
                     PctReturn(timeseries[i][2], backtest_baseline)))

\* lines 93-107
BacktestPctByDate530(bd, sid) ==
    IF ~BacktestUsable(bd) THEN EmptyDict
    ELSE LET symphony_key == SymphonyKey530(bd.dvm_capital, sid)
         IN IF HasKey(bd.dvm_capital, symphony_key)
            THEN LET symphony_timeseries == Lookup(bd.dvm_capital, symphony_key)
                 IN BacktestLoop530(symphony_timeseries, 1,
                        BacktestBaseline530(symphony_timeseries), EmptyDict)
            ELSE EmptyDict

\* line 110
AllDates(live_pct_by_date, backtest_pct_by_date) ==
    SortedDates((DOMAIN live_pct_by_date) \cup (DOMAIN backtest_pct_by_date))

\* a cutoff test that drops the cutoff date itself
AtOrAfter_Strict(date_str, cutoff) == StrLess(cutoff, date_str)

\* line 117
AtOrAfter(date_str, cutoff) == StrGeq(date_str, cutoff)

\* a truthiness test instead of "is not None": a return of 0.0 is not carried
Carry_Truthy(last_known, val) ==
    IF val # None /\ val # <<0, 1>> THEN val ELSE last_known

\* lines 123-126: a fresh value replaces the last known one
Carry(last_known, val) == IF val # None THEN val ELSE last_known

\* lines 116-133: the loop over all_dates from position i on
RECURSIVE FillLoop(_, _, _, _, _, _, _, _)
FillLoop(all_dates, i, live_pct, backtest_pct, cutoff, last_known_live, last_known_backtest, acc) ==
    IF i > Len(all_dates) THEN acc
    ELSE IF AtOrAfter(all_dates[i], cutoff)
         THEN LET l == Carry(last_known_live, DictGet(live_pct, all_dates[i]))
                  b == Carry(last_known_backtest, DictGet(backtest_pct, all_dates[i]))
              IN FillLoop(all_dates, i + 1, live_pct, backtest_pct, cutoff, l, b,
                          Append(acc, [Date |-> all_dates[i], Live |-> l,
                                       Backtest |-> b]))
         ELSE FillLoop(all_dates, i + 1, live_pct, backtest_pct, cutoff,
                       last_known_live, last_known_backtest, acc)

\* lines 74-135
ProcessAndMerge530(ld, bd, sid, cutoff, off) ==
    LET live_pct_by_date == LivePctByDate530(ld, off)
        backtest_pct_by_date == BacktestPctByDate530(bd, sid)
        all_dates == AllDates(live_pct_by_date, backtest_pct_by_date)
    IN FillLoop(all_dates, 1, live_pct_by_date, backtest_pct_by_date, cutoff,
                Blank, Blank, <<>>)

(***************************************************************************)
(* all_symphs_monthly.py, process_and_merge_data.                          *)
(***************************************************************************)
\* line 77
LiveDateStrMonthly(ms, off) == UtcDateStr(ms)

\* lines 81-82 and 99-100
EnsureRow(combined, date_str) ==
    IF date_str \in DOMAIN combined THEN combined
    ELSE DictPut(combined, date_str, [Live |-> None, Backtest |-> None])

\* lines 75-85: the loop over live_points from position i on
RECURSIVE LiveLoopMonthly(_, _, _, _, _, _)
LiveLoopMonthly(points, i, live_baseline, cutoff, off, combined) ==
    IF i > Len(points) THEN combined
    ELSE LET date_str == LiveDateStrMonthly(points[i][1], off)
             value == points[i][2]
         IN IF AtOrAfter(date_str, cutoff)
            THEN LET base == IF live_baseline = None THEN <<value>>
                             ELSE live_baseline
                     c1 == EnsureRow(combined, date_str)
                     c2 == IF base[1] > 0
                           THEN DictPut(c1, date_str,
                                        [c1[date_str] EXCEPT
                                            !.Live = PctReturn(value, base[1])])
                           ELSE c1
                 IN LiveLoopMonthly(points, i + 1, base, cutoff, off, c2)
            ELSE LiveLoopMonthly(points, i + 1, live_baseline, cutoff, off, combined)

\* sorted(timeseries.keys()) without key=int: the keys compare as strings
RECURSIVE SortedKeysByInt_Lexical(_)
SortedKeysByInt_Lexical(S) ==
    LET Min(a, b) == IF a < b THEN a ELSE b
        KeyLeq(a, b) ==
            \/ \E k \in 1..Min(Len(a), Len(b)) :
                   /\ \A j \in 1..(k - 1) : a[j] = b[j]
                   /\ a[k] < b[k]
            \/ /\ Len(a) <= Len(b)
               /\ \A j \in 1..Len(a) : a[j] = b[j]
    IN IF S = {} THEN <<>>
       ELSE LET m == CHOOSE x \in S : \A y \in S : KeyLeq(x, y)
            IN <<m>> \o SortedKeysByInt_Lexical(S \ {m})

\* line 90: sorted(timeseries.keys(), key=int)
RECURSIVE SortedKeysByInt(_)
SortedKeysByInt(S) ==
    IF S = {} THEN <<>>
    ELSE LET m == CHOOSE x \in S : \A y \in S : IntOf(x) <= IntOf(y)
         IN <<m>> \o SortedKeysByInt(S \ {m})

\* lines 92-103: the loop over sorted_keys from position i on
RECURSIVE BacktestLoopMonthly(_, _, _, _, _, _)
BacktestLoopMonthly(timeseries, sorted_keys, i, backtest_baseline, cutoff, combined) ==
    IF i > Len(sorted_keys) THEN combined
    ELSE LET day_key == sorted_keys[i]
             date_str == DateOfDays(IntOf(day_key))
             value == Lookup(timeseries, day_key)
         IN IF AtOrAfter(date_str, cutoff)
            THEN LET base == IF backtest_baseline = None THEN <<value>>
                             ELSE backtest_baseline
                     c1 == EnsureRow(combined, date_str)
                     c2 == IF base[1] > 0
                           THEN DictPut(c1, date_str,
                                        [c1[date_str] EXCEPT
                                            !.Backtest = PctReturn(value, base[1])])
                           ELSE c1
                 IN BacktestLoopMonthly(timeseries, sorted_keys, i + 1, base,
                                        cutoff, c2)
            ELSE BacktestLoopMonthly(timeseries, sorted_keys, i + 1,
                                     backtest_baseline, cutoff, combined)

\* line 88
BacktestUsableMonthly(bd, sid) ==
    BacktestUsable(bd) /\ HasKey(bd.dvm_capital, sid)

\* lines 65-114
ProcessAndMergeMonthly(ld, bd, sid, cutoff, off) ==
    LET c0 == EmptyDict
        c1 == IF LiveUsable(ld)
              THEN LiveLoopMonthly(LivePoints(ld), 1, None, cutoff, off, c0)
              ELSE c0
        c2 == IF BacktestUsableMonthly(bd, sid)
              THEN LET timeseries == Lookup(bd.dvm_capital, sid)
                   IN BacktestLoopMonthly(timeseries,
                          SortedKeysByInt(Range(OrderedKeys(timeseries))),
                          1, None, cutoff, c1)
              ELSE c1
        dates == SortedDates(DOMAIN c2)
    IN [i \in 1..Len(dates) |->
           [Date |-> dates[i], Live |-> c2[dates[i]].Live,
            Backtest |-> c2[dates[i]].Backtest]]

(***************************************************************************)
(* Inputs: what the two fetches can return.                                *)
(***************************************************************************)
SeqsUpTo(S, n) == UNION {[1..k -> S] : k \in 0..n}

Distinct(keys) == \A i, j \in 1..Len(keys) : i # j => keys[i] # keys[j]

\* payloads that lack a required field
LiveDeficient ==
    {[present |-> TRUE, fields |-> {}, epoch_ms |-> <<>>,
      deposit_adjusted_series |-> <<>>],
     [present |-> TRUE, fields |-> {"epoch_ms"}, epoch_ms |-> <<0>>,
      deposit_adjusted_series |-> <<>>],
     [present |-> TRUE, fields |-> {"deposit_adjusted_series"},
      epoch_ms |-> <<>>, deposit_adjusted_series |-> <<100>>]}

LivePayloadsOf(times, valuations) ==
    {LiveAbsent} \cup LiveDeficient \cup
    {LivePayload({"epoch_ms", "deposit_adjusted_series"}, pts) :
        pts \in SeqsUpTo(times \X valuations, MaxSamples)}

LivePayloads == LivePayloadsOf(EpochMs, Valuations)

\* {day_key: capital} dictionaries, keys in any order
TimeseriesOf(capitals, n) ==
    {ts \in SeqsUpTo(DayKeys \X capitals, n) : Distinct(OrderedKeys(ts))}

Timeseries == TimeseriesOf(Capitals, MaxPoints)

\* the benchmark's own capital series
SpyTimeseries == <<<< <<0>>, 10000 >>, << <<9>>, 10100 >>>>

\* dvm_capital mappings: empty, the benchmark alone, the first strategy
\* alone, or the benchmark followed by the second strategy
DvmCapitalsOf(series) ==
    {<<>>, << <<Benchmark, SpyTimeseries>> >>} \cup
    {<< <<SymphonyIds[1], ts>> >> : ts \in series} \cup
    {<< <<Benchmark, SpyTimeseries>>, <<SymphonyIds[2], ts>> >> : ts \in series}

BacktestPayloadsOf(series) ==
    {BacktestAbsent, [present |-> TRUE, fields |-> {}, dvm_capital |-> <<>>]} \cup
    {BacktestPayload({"dvm_capital"}, dvm) : dvm \in DvmCapitalsOf(series)}

BacktestPayloads == BacktestPayloadsOf(Timeseries)

(***************************************************************************)
(* Specification of the two merge functions: the arguments are drawn in    *)
(* Init and each action is one call.                                       *)
(***************************************************************************)
Init ==
    /\ live_data \in LivePayloads
    /\ backtest_data \in BacktestPayloads
    /\ symphony_id = SymphonyIds[1]
    /\ start_date_filter \in Cutoffs
    /\ utcoffset \in UtcOffsets
    /\ final_data = <<>>
    /\ called = "none"
    /\ idx = 0
    /\ pc = "idle"
    /\ backtest_pnl_series = None
    /\ live_value = None
    /\ results = <<>>
    /\ most_deviant_symphs = <<>>
    /\ fetched = <<>>
    /\ all_rows = <<>>
    /\ steps = <<>>

Call530 ==
    /\ called = "none"
    /\ final_data' = ProcessAndMerge530(live_data, backtest_data, symphony_id,
                                        start_date_filter, utcoffset)
    /\ called' = "530symphs"
    /\ UNCHANGED <<live_data, backtest_data, symphony_id, start_date_filter,
                   utcoffset, idx, pc, backtest_pnl_series, live_value,
                   results, most_deviant_symphs, fetched, all_rows, steps>>

CallMonthly ==
    /\ called = "none"
    /\ final_data' = ProcessAndMergeMonthly(live_data, backtest_data, symphony_id,
                                            start_date_filter, utcoffset)
    /\ called' = "all_symphs_monthly"
    /\ UNCHANGED <<live_data, backtest_data, symphony_id, start_date_filter,
                   utcoffset, idx, pc, backtest_pnl_series, live_value,
                   results, most_deviant_symphs, fetched, all_rows, steps>>

Next == Call530 \/ CallMonthly

Spec == Init /\ [][Next]_vars

(***************************************************************************)
(* 530symphs.py and all_symphs_monthly.py, run_main_logic: the batch loop   *)
(* over the configured strategies, one step per action.                    *)
(***************************************************************************)
\* the SYMPHONIES dictionary, in declared order
SYMPHONIES ==
    << [name |-> "Black Swan Catcher (SPY)", id |-> SymphonyIds[1]],
       [name |-> "EZ Win", id |-> SymphonyIds[2]] >>

\* truth value of what a fetch returned: None and {} are false
Truthy(data) == data.present /\ data.fields # {}

\* what the two fetches return in a batch run
RunLivePayloads ==
    {LiveAbsent, LivePayload({}, <<>>),
     LivePayload({"epoch_ms", "deposit_adjusted_series"},
                 << <<0, 100>>, <<777600000, 110>> >>)}

RunTimeseries == {<< << <<0>>, 10000 >>, << <<9>>, 9000 >> >>}

RunBacktestPayloads == BacktestPayloadsOf(RunTimeseries)

InitRun ==
    /\ called \in {"530symphs", "all_symphs_monthly"}
    /\ live_data = LiveAbsent
    /\ backtest_data = BacktestAbsent
    /\ symphony_id = SYMPHONIES[1].id
    /\ start_date_filter \in Cutoffs
    /\ utcoffset = 0
    /\ final_data = <<>>
    /\ idx = 1
    /\ pc = "fetch_live"
    /\ backtest_pnl_series = None
    /\ live_value = None
    /\ results = <<>>
    /\ most_deviant_symphs = <<>>
    /\ fetched = <<>>
    /\ all_rows = <<>>
    /\ steps = <<>>

\* 530symphs.py line 144, all_symphs_monthly.py line 123
RunFetchLive ==
    /\ pc = "fetch_live"
    /\ \E response \in RunLivePayloads : live_data' = response
    /\ pc' = "fetch_backtest"
    /\ steps' = Append(steps, [op |-> "fetch_live", k |-> idx])
    /\ UNCHANGED <<backtest_data, symphony_id, start_date_filter, utcoffset,
                   final_data, called, idx, backtest_pnl_series, live_value,
                   results, most_deviant_symphs, fetched, all_rows>>

\* 530symphs.py line 145, all_symphs_monthly.py line 124
RunFetchBacktest ==
    /\ pc = "fetch_backtest"
    /\ \E response \in RunBacktestPayloads : backtest_data' = response
    /\ pc' = "process"
    /\ steps' = Append(steps, [op |-> "fetch_backtest", k |-> idx])
    /\ UNCHANGED <<live_data, symphony_id, start_date_filter, utcoffset,
                   final_data, called, idx, backtest_pnl_series, live_value,
                   results, most_deviant_symphs, fetched, all_rows>>

\* 530symphs.py lines 147-151, all_symphs_monthly.py lines 126-130
Process ==
    /\ pc = "process"
    /\ Truthy(live_data) \/ Truthy(backtest_data)
    /\ LET processed_data ==
               IF called = "530symphs"
               THEN ProcessAndMerge530(live_data, backtest_data, symphony_id,
                                       start_date_filter, utcoffset)
               ELSE ProcessAndMergeMonthly(live_data, backtest_data, symphony_id,
                                           start_date_filter, utcoffset)
       IN /\ final_data' = processed_data
          /\ all_rows' = all_rows \o
                 [i \in 1..Len(processed_data) |->
                     [Symphony |-> SYMPHONIES[idx].name,
                      Date |-> processed_data[i].Date,
                      Live |-> processed_data[i].Live,
                      Backtest |-> processed_data[i].Backtest]]
    /\ pc' = "sleep"
    /\ steps' = Append(steps, [op |-> "compute", k |-> idx])
    /\ UNCHANGED <<live_data, backtest_data, symphony_id, start_date_filter,
                   utcoffset, called, idx, backtest_pnl_series, live_value,
                   results, most_deviant_symphs, fetched>>

\* 530symphs.py lines 152-153, all_symphs_monthly.py lines 131-132
SkipProcess ==
    /\ pc = "process"
    /\ ~(Truthy(live_data) \/ Truthy(backtest_data))
    /\ pc' = "sleep"
    /\ steps' = Append(steps, [op |-> "compute", k |-> idx])
    /\ UNCHANGED <<live_data, backtest_data, symphony_id, start_date_filter,
                   utcoffset, final_data, called, idx, backtest_pnl_series,
                   live_value, results, most_deviant_symphs, fetched, all_rows>>

\* 530symphs.py line 154, all_symphs_monthly.py line 133, and the loop header
\* for the next strategy
Sleep ==
    /\ pc = "sleep"
    /\ steps' = Append(steps, [op |-> "sleep", k |-> idx])
    /\ idx' = idx + 1
    /\ IF idx < Len(SYMPHONIES)
       THEN /\ pc' = "fetch_live"
            /\ symphony_id' = SYMPHONIES[idx + 1].id
       ELSE /\ pc' = "print"
            /\ UNCHANGED symphony_id
    /\ UNCHANGED <<live_data, backtest_data, start_date_filter, utcoffset,
                   final_data, called, backtest_pnl_series, live_value,
                   results, most_deviant_symphs, fetched, all_rows>>

\* 530symphs.py lines 156-164, all_symphs_monthly.py lines 135-143: the rows
\* are printed, nothing is stored
PrintRows ==
    /\ pc = "print"
    /\ pc' = "done"
    /\ UNCHANGED <<live_data, backtest_data, symphony_id, start_date_filter,
                   utcoffset, final_data, called, idx, backtest_pnl_series,
                   live_value, results, most_deviant_symphs, fetched, all_rows,
                   steps>>

NextRun ==
    RunFetchLive \/ RunFetchBacktest \/ Process \/ SkipProcess \/ Sleep \/ PrintRows

SpecRun == InitRun /\ [][NextRun]_vars

(***************************************************************************)
(* The backtest extraction of both merge functions on one capital point    *)
(* whose day-offset key is drawn from a wide range.                        *)
(***************************************************************************)
\* str(n), the key a day offset has in the payload
RECURSIVE KeyOf(_)
KeyOf(n) == IF n < 10 THEN <<n>> ELSE Append(KeyOf(n \div 10), n % 10)

\* the first days of 1970, leap days, a year's end, and days of 2025
Offsets == (0..MaxOffset) \cup {364, 365, 789, 790, 10956, 11016, 20225, 20238}

OffsetPayloads ==
    {BacktestPayload({"dvm_capital"},
         << <<SymphonyIds[1], << <<KeyOf(n), 10000>> >> >> >>) : n \in Offsets}

InitD ==
    /\ live_data = LiveAbsent
    /\ backtest_data \in OffsetPayloads
    /\ symphony_id = SymphonyIds[1]
    /\ start_date_filter = <<1970, 1, 1>>
    /\ utcoffset = 0
    /\ final_data = <<>>
    /\ called = "none"
    /\ idx = 0
    /\ pc = "idle"
    /\ backtest_pnl_series = None
    /\ live_value = None
    /\ results = <<>>
    /\ most_deviant_symphs = <<>>
    /\ fetched = <<>>
    /\ all_rows = <<>>
    /\ steps = <<>>

SpecD == InitD /\ [][Next]_vars

(***************************************************************************)
(* Claims about 530symphs.py process_and_merge_data.                       *)
(***************************************************************************)
RowDates == {final_data[i].Date : i \in 1..Len(final_data)}

\* C1: UNION_FORWARD_FILL emits exactly one row for each date >= cutoff that
\* is in the live return series or in the backtest return series, no other
\* row, and the rows are in strictly ascending date order.
C1_UnionCoverage ==
    called = "530symphs" =>
        LET lv == LivePctByDate530(live_data, utcoffset)
            bt == BacktestPctByDate530(backtest_data, symphony_id)
            wanted == {d \in (DOMAIN lv) \cup (DOMAIN bt) :
                          ~StrLess(d, start_date_filter)}
        IN /\ RowDates = wanted
           /\ Len(final_data) = Cardinality(wanted)
           /\ \A i, j \in 1..Len(final_data) :
                  i < j => StrLess(final_data[i].Date, final_data[j].Date)

\* C1 witness: a merge whose inputs have a live-only date, a backtest-only
\* date and a date before the cutoff, with at least two rows emitted.
C1_Witness ==
    /\ called = "530symphs"
    /\ Len(final_data) >= 2
    /\ LET lv == LivePctByDate530(live_data, utcoffset)
           bt == BacktestPctByDate530(backtest_data, symphony_id)
       IN /\ \E d \in RowDates : d \in DOMAIN lv /\ d \notin DOMAIN bt
          /\ \E d \in RowDates : d \in DOMAIN bt /\ d \notin DOMAIN lv
          /\ \E d \in (DOMAIN lv) \cup (DOMAIN bt) : StrLess(d, start_date_filter)

\* C2: in the row for date d a side's cell is blank iff that side's series has
\* no sample on a date in [cutoff, d]; otherwise it is the return of the
\* latest sampled date in [cutoff, d], a return of 0.0 included.  So a blank
\* cell never follows a non-blank cell of the same side.
C2_ForwardFill ==
    called = "530symphs" =>
        LET lv == LivePctByDate530(live_data, utcoffset)
            bt == BacktestPctByDate530(backtest_data, symphony_id)
            Seen(series, d) ==
                {x \in DOMAIN series :
                    ~StrLess(x, start_date_filter) /\ ~StrLess(d, x)}
            Latest(S) == CHOOSE x \in S : \A y \in S : ~StrLess(x, y)
            CellOk(cell, series, d) ==
                IF Seen(series, d) = {} THEN cell = Blank
                ELSE cell # Blank /\ cell = series[Latest(Seen(series, d))]
        IN /\ \A i \in 1..Len(final_data) :
                  /\ CellOk(final_data[i].Live, lv, final_data[i].Date)
                  /\ CellOk(final_data[i].Backtest, bt, final_data[i].Date)
           /\ \A i, j \in 1..Len(final_data) :
                  i < j =>
                      /\ final_data[i].Live # Blank => final_data[j].Live # Blank
                      /\ final_data[i].Backtest # Blank
                             => final_data[j].Backtest # Blank

\* C2 witness: a live return of 0.0 is carried into a later row that has no
\* live sample, and a backtest cell is blank before the first backtest sample.
C2_Witness ==
    /\ called = "530symphs"
    /\ LET lv == LivePctByDate530(live_data, utcoffset)
       IN \E i \in 1..Len(final_data) :
              /\ final_data[i].Date \notin DOMAIN lv
              /\ final_data[i].Live = <<0, 1>>
    /\ \E i, j \in 1..Len(final_data) :
           /\ i < j
           /\ final_data[i].Backtest = Blank
           /\ final_data[j].Backtest # Blank

(***************************************************************************)
(* Claims about both process_and_merge_data implementations.  The input    *)
(* series of a call, read off the payloads directly:                       *)
(***************************************************************************)
\* the live samples in chronological order, empty when the payload is
\* absent or lacks a field
LiveSamples ==
    IF LiveUsable(live_data)
    THEN SortedPairs(Zip(live_data.epoch_ms, live_data.deposit_adjusted_series))
    ELSE <<>>

\* the capital series of exactly the requested id, empty when the payload is
\* absent, lacks dvm_capital or does not contain the id
ExactTimeseries ==
    IF BacktestUsable(backtest_data) /\ HasKey(backtest_data.dvm_capital, symphony_id)
    THEN Lookup(backtest_data.dvm_capital, symphony_id)
    ELSE <<>>

\* UTC calendar dates of the live samples / dates of the backtest points
LiveUtcDates == {UtcDateStr(LiveSamples[i][1]) : i \in 1..Len(LiveSamples)}

BacktestDates ==
    {DateOfDays(IntOf(ExactTimeseries[i][1])) : i \in 1..Len(ExactTimeseries)}

\* C3 (as claimed): the non-forward-fill merge has exactly one row per date
\* >= cutoff present in BOTH series, and no row for a date only one side has.
C3_IntersectionOnly ==
    called = "all_symphs_monthly" =>
        /\ RowDates = {d \in LiveUtcDates \cap BacktestDates :
                          ~StrLess(d, start_date_filter)}
        /\ Len(final_data) = Cardinality(RowDates)

\* C4 (as claimed): under FIRST_SAMPLE every fresh entry is raw/baseline - 1
\* for the earliest value of that series, and the row on the baseline
\* sample's date holds exactly 0.0, for the live and for the backtest side.
C4_FirstSampleBaseline ==
    called = "530symphs" =>
        LET bt == ExactTimeseries
            first == CHOOSE i \in 1..Len(bt) :
                        \A j \in 1..Len(bt) : IntOf(bt[i][1]) <= IntOf(bt[j][1])
        IN /\ (Len(LiveSamples) > 0 /\ LiveSamples[1][2] > 0) =>
                  \A i \in 1..Len(final_data) :
                      final_data[i].Date
                          = LiveDateStr530(LiveSamples[1][1], utcoffset)
                      => final_data[i].Live = <<0, 1>>
           /\ (Len(bt) > 0 /\ bt[first][2] > 0) =>
                  \A i \in 1..Len(final_data) :
                      \A k \in 1..Len(bt) :
                          final_data[i].Date = DateOfDays(IntOf(bt[k][1]))
                          => /\ final_data[i].Backtest
                                    = PctReturn(bt[k][2], bt[first][2])
                             /\ (k = first => final_data[i].Backtest = <<0, 1>>)

\* C5 (as claimed): a side whose chosen baseline is non-positive or undefined
\* contributes no date and no value; the other side is still emitted.
C5_DegenerateBaseline ==
    called # "none" =>
        LET kept == {i \in 1..Len(LiveSamples) :
                        called = "all_symphs_monthly" =>
                            ~StrLess(UtcDateStr(LiveSamples[i][1]),
                                     start_date_filter)}
            liveDegenerate ==
                \/ kept = {}
                \/ LiveSamples[CHOOSE i \in kept : \A j \in kept : i <= j][2] <= 0
            keptB == {i \in 1..Len(ExactTimeseries) :
                         ~StrLess(DateOfDays(IntOf(ExactTimeseries[i][1])),
                                  start_date_filter)}
            firstB == CHOOSE i \in keptB : \A j \in keptB :
                         IntOf(ExactTimeseries[i][1]) <= IntOf(ExactTimeseries[j][1])
            backtestDegenerate ==
                called = "all_symphs_monthly" /\
                    (keptB = {} \/ ExactTimeseries[firstB][2] <= 0)
        IN /\ liveDegenerate =>
                  /\ \A i \in 1..Len(final_data) : final_data[i].Live = Blank
                  /\ called = "all_symphs_monthly" =>
                         RowDates \subseteq
                             (IF backtestDegenerate THEN {} ELSE BacktestDates)
           /\ backtestDegenerate =>
                  \A i \in 1..Len(final_data) : final_data[i].Backtest = Blank

\* C6 (as claimed): the rows do not depend on the machine's local zone: they
\* are the rows a machine running in UTC produces, in both implementations.
C6_TimezoneInvariant ==
    /\ called = "530symphs" =>
           final_data = ProcessAndMerge530(live_data, backtest_data, symphony_id,
                                           start_date_filter, 0)
    /\ called = "all_symphs_monthly" =>
           final_data = ProcessAndMergeMonthly(live_data, backtest_data,
                                               symphony_id, start_date_filter, 0)

\* C7 (as claimed): a live payload that is absent or lacks a field gives no
\* live value, and a backtest payload that is absent, lacks dvm_capital or
\* does not contain the exact strategy id gives no backtest value in any row.
C7_SoftFailure ==
    called # "none" =>
        /\ ~LiveUsable(live_data) =>
               \A i \in 1..Len(final_data) : final_data[i].Live = Blank
        /\ ~(BacktestUsable(backtest_data)
                 /\ HasKey(backtest_data.dvm_capital, symphony_id)) =>
               \A i \in 1..Len(final_data) : final_data[i].Backtest = Blank

(***************************************************************************)
(* zscore.py.                                                              *)
(***************************************************************************)
\* lines 22-60 on the repository's own configuration: master_runner.py lists
\* 530symphs.py, whose SYMPHONIES are these two
symphonies_to_run ==
    << [name |-> "Black Swan Catcher (SPY)", id |-> SymphonyIds[1]],
       [name |-> "EZ Win", id |-> SymphonyIds[2]] >>

RECURSIVE SumSeq(_)
SumSeq(xs) == IF Len(xs) = 0 THEN 0 ELSE xs[1] + SumSeq(Tail(xs))

\* np.diff
Diff(xs) == [i \in 1..(Len(xs) - 1) |-> xs[i + 1] - xs[i]]

\* list(symphony_timeseries.values())
Values(od) == [i \in 1..Len(od) |-> od[i][2]]

\* sorted(...) of a list of numbers
RECURSIVE SortedInts(_)
SortedInts(s) ==
    IF Len(s) = 0 THEN <<>>
    ELSE LET i == CHOOSE k \in 1..Len(s) : \A j \in 1..Len(s) : s[k] <= s[j]
             rest == [j \in 1..(Len(s) - 1) |-> IF j < i THEN s[j] ELSE s[j + 1]]
         IN <<s[i]>> \o SortedInts(rest)

\* lines 84-105: None, [] or the P&L series
GetBacktestPnlSeries(response, sid) ==
    IF ~response.present THEN None
    ELSE IF "dvm_capital" \in response.fields /\ HasKey(response.dvm_capital, sid)
         THEN LET symphony_timeseries == Lookup(response.dvm_capital, sid)
                  capital_values == Values(symphony_timeseries)
                  pnl_series == IF Len(capital_values) = 0 THEN <<>>
                                ELSE Diff(capital_values)
              IN IF Len(pnl_series) > 0 THEN <<pnl_series>> ELSE << <<>> >>
         ELSE << <<>> >>

\* lines 121-122
LastPnl(series) ==
    LET live_points == SortedInts(series)
    IN live_points[Len(live_points)] - live_points[Len(live_points) - 1]

\* lines 115-130: None or the last live P&L
GetLivePnl(response) ==
    IF ~response.present THEN None
    ELSE IF /\ "deposit_adjusted_series" \in response.fields
            /\ Len(response.deposit_adjusted_series) >= 2
         THEN <<LastPnl(response.deposit_adjusted_series)>>
         ELSE None

\* np.mean
Mean(xs) == Frac(SumSeq(xs), Len(xs))

\* np.std: the non-negative root of the population variance
Std(xs) ==
    LET n == Len(xs)
        s == SumSeq(xs)
        ss == SumSeq([i \in 1..n |-> xs[i] * xs[i]])
        var == Frac(n * ss - s * s, n * n)
    IN [sign |-> IF var[1] = 0 THEN 0 ELSE 1, sq |-> var]

Inf == [sign |-> 1, sq |-> <<1, 0>>]
Zero == [sign |-> 0, sq |-> <<0, 1>>]

\* (live_value - mean) / std_dev, std_dev # 0
Quotient(live, mean, std_dev) ==
    LET num == live * mean[2] - mean[1]       \* (live - mean) * mean[2]
    IN [sign |-> IF num > 0 THEN 1 ELSE IF num < 0 THEN -1 ELSE 0,
        sq |-> Frac(num * num * std_dev.sq[2],
                    mean[2] * mean[2] * std_dev.sq[1])]

\* an infinity that takes the sign of the deviation
CalculateZScore_SignedInf(live, mean, std_dev) ==
    IF std_dev.sign = 0
    THEN IF Frac(live, 1) # mean
         THEN [sign |-> IF live * mean[2] < mean[1] THEN -1 ELSE 1,
               sq |-> <<1, 0>>]
         ELSE Zero
    ELSE Quotient(live, mean, std_dev)

\* lines 133-137
CalculateZScore(live, mean, std_dev) ==
    IF std_dev.sign = 0
    THEN IF Frac(live, 1) # mean THEN Inf ELSE Zero
    ELSE Quotient(live, mean, std_dev)

\* a truthiness test: a live P&L of 0 is taken for a missing one
SkipStrategy_Truthy(bps, lv) ==
    IF bps = None \/ lv = None \/ lv = <<0>> THEN TRUE ELSE Len(bps[1]) = 0

\* line 163
SkipStrategy(bps, lv) ==
    IF bps = None \/ lv = None THEN TRUE ELSE Len(bps[1]) = 0

\* a > b without the abs(): the key compares the signed scores
AbsGreater_Signed(a, b) ==
    IF a.sign # b.sign THEN a.sign > b.sign
    ELSE IF a.sign > 0 THEN a.sq[1] * b.sq[2] > b.sq[1] * a.sq[2]
    ELSE IF a.sign < 0 THEN b.sq[1] * a.sq[2] > a.sq[1] * b.sq[2]
    ELSE FALSE

\* abs(a) > abs(b)
AbsGreater(a, b) == a.sq[1] * b.sq[2] > b.sq[1] * a.sq[2]

\* line 182: sorted(results, key=lambda x: abs(x['z_score']), reverse=True);
\* the sort is stable, equal keys keep their order
RECURSIVE SortedByAbsZ(_)
SortedByAbsZ(rs) ==
    IF Len(rs) = 0 THEN <<>>
    ELSE LET i == CHOOSE k \in 1..Len(rs) :
                      /\ \A j \in 1..Len(rs) :
                             ~AbsGreater(rs[j].z_score, rs[k].z_score)
                      /\ \A j \in 1..(k - 1) :
                             AbsGreater(rs[k].z_score, rs[j].z_score)
             rest == [j \in 1..(Len(rs) - 1) |-> IF j < i THEN rs[j] ELSE rs[j + 1]]
         IN <<rs[i]>> \o SortedByAbsZ(rest)

\* what the two fetches of one strategy returned, for the record
FetchRecord(bd, ld, sid) ==
    [backtest_fetched |-> bd.present,
     id_present |-> "dvm_capital" \in bd.fields /\ HasKey(bd.dvm_capital, sid),
     capital_points |-> IF "dvm_capital" \in bd.fields /\ HasKey(bd.dvm_capital, sid)
                        THEN Len(Lookup(bd.dvm_capital, sid)) ELSE 0,
     live_fetched |-> ld.present,
     live_samples |-> IF "deposit_adjusted_series" \in ld.fields
                      THEN Len(ld.deposit_adjusted_series) ELSE 0]

ZLivePayloads == LivePayloadsOf(ZEpochMs, ZValuations)

ZBacktestPayloads == BacktestPayloadsOf(TimeseriesOf(ZCapitals, MaxCapitalPoints))

\* main after authentication and discovery succeeded (lines 144-154)
InitZ ==
    /\ live_data = LiveAbsent
    /\ backtest_data = BacktestAbsent
    /\ symphony_id = symphonies_to_run[1].id
    /\ start_date_filter = <<1970, 1, 1>>
    /\ utcoffset = 0
    /\ final_data = <<>>
    /\ called = "zscore"
    /\ idx = 1
    /\ pc = "fetch_backtest"
    /\ backtest_pnl_series = None
    /\ live_value = None
    /\ results = <<>>
    /\ most_deviant_symphs = <<>>
    /\ fetched = <<>>
    /\ all_rows = <<>>
    /\ steps = <<>>

\* line 160
FetchBacktest ==
    /\ pc = "fetch_backtest"
    /\ \E response \in ZBacktestPayloads :
           /\ backtest_data' = response
           /\ backtest_pnl_series' = GetBacktestPnlSeries(response, symphony_id)
    /\ pc' = "fetch_live"
    /\ steps' = Append(steps, [op |-> "fetch_backtest", k |-> idx])
    /\ UNCHANGED <<live_data, symphony_id, start_date_filter, utcoffset,
                   final_data, called, idx, live_value, results,
                   most_deviant_symphs, fetched, all_rows>>

\* line 161
FetchLive ==
    /\ pc = "fetch_live"
    /\ \E response \in ZLivePayloads :
           /\ live_data' = response
           /\ live_value' = GetLivePnl(response)
    /\ pc' = "compute"
    /\ steps' = Append(steps, [op |-> "fetch_live", k |-> idx])
    /\ UNCHANGED <<backtest_data, symphony_id, start_date_filter, utcoffset,
                   final_data, called, idx, backtest_pnl_series, results,
                   most_deviant_symphs, fetched, all_rows>>

\* lines 155-157 for the next strategy, or leaving the loop
Advance ==
    /\ idx' = idx + 1
    /\ IF idx < Len(symphonies_to_run)
       THEN /\ pc' = "fetch_backtest"
            /\ symphony_id' = symphonies_to_run[idx + 1].id
       ELSE /\ pc' = "rank"
            /\ UNCHANGED symphony_id
    /\ fetched' = Append(fetched, FetchRecord(backtest_data, live_data, symphony_id))
    /\ live_data' = LiveAbsent
    /\ backtest_data' = BacktestAbsent
    /\ backtest_pnl_series' = None
    /\ live_value' = None
    /\ steps' = Append(steps, [op |-> "compute", k |-> idx])

\* lines 163-165
Skip ==
    /\ pc = "compute"
    /\ SkipStrategy(backtest_pnl_series, live_value)
    /\ Advance
    /\ UNCHANGED <<start_date_filter, utcoffset, final_data, called, results,
                   most_deviant_symphs, all_rows>>

\* lines 167-174
Compute ==
    /\ pc = "compute"
    /\ ~SkipStrategy(backtest_pnl_series, live_value)
    /\ LET mean_pnl == Mean(backtest_pnl_series[1])
           std_dev_pnl == Std(backtest_pnl_series[1])
           z_score == CalculateZScore(live_value[1], mean_pnl, std_dev_pnl)
       IN results' = Append(results,
              [name |-> symphonies_to_run[idx].name, z_score |-> z_score,
               live_pnl |-> live_value[1], mean_pnl |-> mean_pnl,
               std_dev_pnl |-> std_dev_pnl])
    /\ Advance
    /\ UNCHANGED <<start_date_filter, utcoffset, final_data, called,
                   most_deviant_symphs, all_rows>>

\* lines 181-187
Rank ==
    /\ pc = "rank"
    /\ most_deviant_symphs' = SortedByAbsZ(results)
    /\ pc' = "done"
    /\ UNCHANGED <<live_data, backtest_data, symphony_id, start_date_filter,
                   utcoffset, final_data, called, idx, backtest_pnl_series,
                   live_value, results, fetched, all_rows, steps>>

NextZ == FetchBacktest \/ FetchLive \/ Skip \/ Compute \/ Rank

SpecZ == InitZ /\ [][NextZ]_vars

(***************************************************************************)
(* Claims about zscore.py.                                                 *)
(***************************************************************************)
\* C8 (as claimed): for a live payload with at least 2 samples the live delta
\* is the valuation of the most recent sample by timestamp minus the
\* valuation of the sample just before it.
C8_LastTwoByTime ==
    (/\ pc = "compute"
     /\ Len(LiveSamples) >= 2
     /\ Distinct(live_data.epoch_ms)) =>
        live_value = <<LiveSamples[Len(LiveSamples)][2]
                           - LiveSamples[Len(LiveSamples) - 1][2]>>

\* C9: every computed z-score is (live - mean)/std_dev when std_dev # 0; when
\* std_dev = 0 it is 0.0 if live equals the mean and +infinity otherwise,
\* also when live is below the mean.  It is never an undefined value.
C9_ZScore ==
    \A k \in 1..Len(results) :
        LET r == results[k]
            z == r.z_score
            m == r.mean_pnl
            v == r.std_dev_pnl.sq
            num == r.live_pnl * m[2] - m[1]
        IN /\ z.sq # <<0, 0>> /\ z.sq[1] >= 0 /\ z.sq[2] >= 0
           /\ v[1] # 0 =>
                  /\ z.sq[2] > 0
                  /\ (z.sign > 0) = (num > 0)
                  /\ (z.sign < 0) = (num < 0)
                  /\ z.sq[1] * (m[2] * m[2] * v[1]) = z.sq[2] * (num * num * v[2])
           /\ (v[1] = 0 /\ num = 0) => z.sign = 0 /\ z.sq = <<0, 1>>
           /\ (v[1] = 0 /\ num # 0) => z.sign = 1 /\ z.sq = <<1, 0>>

\* C9 witness: one result with zero deviation and a live value below the
\* mean, scored +infinity, and one with a non-zero deviation and a non-zero
\* finite score.
C9_Witness ==
    /\ \E k \in 1..Len(results) :
           /\ results[k].std_dev_pnl.sq[1] = 0
           /\ results[k].live_pnl * results[k].mean_pnl[2] < results[k].mean_pnl[1]
           /\ results[k].z_score = Inf
    /\ \E k \in 1..Len(results) :
           /\ results[k].std_dev_pnl.sq[1] # 0
           /\ results[k].z_score.sign # 0

\* C10: a strategy is in the results iff its backtest fetch succeeded with the
\* exact id and at least 2 capital points and its live fetch succeeded with
\* at least 2 samples; a skipped strategy adds no result, and the strategies
\* after it are still fetched: the loop ends only after all of them.
C10_SkipAndContain ==
    LET Complete(f) ==
            /\ f.backtest_fetched /\ f.id_present /\ f.capital_points >= 2
            /\ f.live_fetched /\ f.live_samples >= 2
    IN /\ Len(fetched) = idx - 1
       /\ \A k \in 1..Len(fetched) :
              Complete(fetched[k]) <=>
                  \E j \in 1..Len(results) :
                      results[j].name = symphonies_to_run[k].name
       /\ Len(results) = Cardinality({k \in 1..Len(fetched) : Complete(fetched[k])})
       /\ pc \in {"rank", "done"} => Len(fetched) = Len(symphonies_to_run)

\* C10 witness: the run is over, the first strategy was skipped and the
\* second one is in the results.
C10_Witness ==
    /\ pc = "done"
    /\ Len(fetched) = 2
    /\ ~(fetched[1].backtest_fetched /\ fetched[1].live_fetched)
    /\ Len(results) = 1
    /\ results[1].name = symphonies_to_run[2].name

\* C11: the printed ranking is a permutation of the results of the strategies
\* that were not skipped, the absolute z-score never increases from one
\* place to the next, and a result with an infinite z-score stands before
\* every result with a finite one.
C11_Ranking ==
    pc = "done" =>
        LET ranking == most_deviant_symphs
            Finite(z) == z.sq[2] # 0
            \* abs(a) <= abs(b), as squares
            AbsLeq(a, b) ==
                IF ~Finite(b) THEN TRUE
                ELSE IF ~Finite(a) THEN FALSE
                ELSE a.sq[1] * b.sq[2] <= b.sq[1] * a.sq[2]
        IN /\ Len(ranking) = Len(results)
           /\ \E f \in [1..Len(ranking) -> 1..Len(results)] :
                  /\ \A i, j \in 1..Len(ranking) : f[i] = f[j] => i = j
                  /\ \A i \in 1..Len(ranking) : ranking[i] = results[f[i]]
           /\ \A i \in 1..(Len(ranking) - 1) :
                  AbsLeq(ranking[i + 1].z_score, ranking[i].z_score)
           /\ \A i, j \in 1..Len(ranking) :
                  (~Finite(ranking[i].z_score) /\ Finite(ranking[j].z_score))
                      => i < j

\* C11 witness: two strategies were scored, the first one with a negative
\* finite z-score and the second one with an infinite one, and the ranking
\* has put the second one first.
C11_Witness ==
    /\ pc = "done"
    /\ Len(results) = 2
    /\ results[1].z_score.sign < 0 /\ results[1].z_score.sq[2] # 0
    /\ results[2].z_score = Inf
    /\ most_deviant_symphs = <<results[2], results[1]>>

\* C12 (as claimed): in every batch run the strategies are processed one
\* after another in declared order, no fetch for a strategy is issued before
\* the fetch-and-compute of the strategy before it has completed, and a
\* pause lies between the last upstream request of a strategy and the first
\* upstream request of the next one.
C12_SequencedAndPolite ==
    LET Request(i) == steps[i].op \in {"fetch_live", "fetch_backtest"}
    IN /\ \A i, j \in 1..Len(steps) : i < j => steps[i].k <= steps[j].k
       /\ \A j \in 1..Len(steps) :
              (Request(j) /\ steps[j].k > 1) =>
                  \E i \in 1..(j - 1) :
                      steps[i] = [op |-> "compute", k |-> steps[j].k - 1]
       /\ \A i, j \in 1..Len(steps) :
              (Request(i) /\ Request(j) /\ steps[j].k = steps[i].k + 1) =>
                  \E p \in (i + 1)..(j - 1) : steps[p].op = "sleep"

(***************************************************************************)
(* Claims about the day-offset conversion.                                 *)
(***************************************************************************)
IsLeap(y) == (y % 4 = 0 /\ y % 100 # 0) \/ y % 400 = 0

DaysInMonth(y, m) ==
    IF m = 2 THEN (IF IsLeap(y) THEN 29 ELSE 28)
    ELSE IF m \in {4, 6, 9, 11} THEN 30 ELSE 31

ValidDate(date) ==
    /\ date[1] >= 1970
    /\ date[2] \in 1..12
    /\ date[3] \in 1..DaysInMonth(date[1], date[2])

\* the number of whole days from 1970-01-01 to the date, counted over the
\* calendar year by year and month by month
RECURSIVE DaysBeforeYear(_)
DaysBeforeYear(y) ==
    IF y <= 1970 THEN 0
    ELSE DaysBeforeYear(y - 1) + (IF IsLeap(y - 1) THEN 366 ELSE 365)

RECURSIVE DaysBeforeMonth(_, _)
DaysBeforeMonth(y, m) ==
    IF m <= 1 THEN 0 ELSE DaysBeforeMonth(y, m - 1) + DaysInMonth(y, m - 1)

DayNumber(date) ==
    DaysBeforeYear(date[1]) + DaysBeforeMonth(date[1], date[2]) + date[3] - 1

\* the day-offset keys of the requested id's capital series
OffsetKeys == {ExactTimeseries[i][1] : i \in 1..Len(ExactTimeseries)}

\* every row carries the date n whole days after 1970-01-01 of a key n, and
\* every key has its row
DatesAreOffsets ==
    /\ \A date \in RowDates :
           /\ ValidDate(date)
           /\ \E key \in OffsetKeys : DayNumber(date) = IntOf(key)
    /\ \A key \in OffsetKeys :
           \E date \in RowDates : DayNumber(date) = IntOf(key)

DateOfKey(key) == CHOOSE date \in RowDates : DayNumber(date) = IntOf(key)

\* C13 (as claimed): a day-offset key n becomes the calendar date n whole
\* days after 1970-01-01; offset 0 yields 1970-01-01 and offset 20225 yields
\* 2025-05-30.
C13_OffsetAsClaimed ==
    (called # "none" /\ ~live_data.present) =>
        /\ DatesAreOffsets
        /\ <<0>> \in OffsetKeys => DateOfKey(<<0>>) = <<1970, 1, 1>>
        /\ <<2, 0, 2, 2, 5>> \in OffsetKeys =>
               DateOfKey(<<2, 0, 2, 2, 5>>) = <<2025, 5, 30>>

\* C13 (amended): a day-offset key n becomes the calendar date n whole days
\* after 1970-01-01; offset 0 yields 1970-01-01, offset 20225 yields
\* 2025-05-17 and offset 20238 yields 2025-05-30.
C13_DayOffset ==
    (called # "none" /\ ~live_data.present) =>
        /\ DatesAreOffsets
        /\ <<0>> \in OffsetKeys => DateOfKey(<<0>>) = <<1970, 1, 1>>
        /\ <<2, 0, 2, 2, 5>> \in OffsetKeys =>
               DateOfKey(<<2, 0, 2, 2, 5>>) = <<2025, 5, 17>>
        /\ <<2, 0, 2, 3, 8>> \in OffsetKeys =>
               DateOfKey(<<2, 0, 2, 3, 8>>) = <<2025, 5, 30>>

\* C13 witness: the key "20225" was converted and its row is dated
\* 2025-05-17.
C13_Witness ==
    /\ called # "none"
    /\ OffsetKeys = {<<2, 0, 2, 2, 5>>}
    /\ RowDates = {<<2025, 5, 17>>}

(***************************************************************************)
(* Claims about the simulated P&L of zscore.py.                            *)
(***************************************************************************)
\* the capital values of the requested id by ascending numeric day offset
ChronologicalCapital ==
    LET sorted_keys == SortedKeysByInt(Range(OrderedKeys(ExactTimeseries)))
    IN [i \in 1..Len(sorted_keys) |-> Lookup(ExactTimeseries, sorted_keys[i])]

\* C14 (as claimed): whatever the order of the day-offset keys in the
\* payload, the simulated P&L series is the sequence of first differences of
\* the capital values taken by ascending numeric day offset.
C14_ChronologicalPnl ==
    (/\ called = "zscore"
     /\ pc \in {"fetch_live", "compute"}
     /\ Len(ExactTimeseries) >= 2) =>
        backtest_pnl_series = <<Diff(ChronologicalCapital)>>

(***************************************************************************)
(* Claims about the baselines of all_symphs_monthly.py.                    *)
(***************************************************************************)
\* the live samples as the payload lists them, empty when it is unusable
RawLive ==
    IF LiveUsable(live_data)
    THEN Zip(live_data.epoch_ms, live_data.deposit_adjusted_series)
    ELSE <<>>

\* positions of the live samples / capital points dated at or after the cutoff
KeptLive ==
    {i \in 1..Len(RawLive) :
        ~StrLess(UtcDateStr(RawLive[i][1]), start_date_filter)}

KeptBacktest ==
    {i \in 1..Len(ExactTimeseries) :
        ~StrLess(DateOfDays(IntOf(ExactTimeseries[i][1])), start_date_filter)}

\* the values of the kept live samples with the smallest timestamp
EarliestLiveValues ==
    {RawLive[i][2] : i \in {k \in KeptLive :
                               \A j \in KeptLive : RawLive[k][1] <= RawLive[j][1]}}

\* the value of the kept capital point with the numerically smallest offset
EarliestBacktestValues ==
    {ExactTimeseries[i][2] :
        i \in {k \in KeptBacktest :
                  \A j \in KeptBacktest :
                      IntOf(ExactTimeseries[k][1]) <= IntOf(ExactTimeseries[j][1])}}

\* C15: in all_symphs_monthly.py each side's baseline is the value of its
\* earliest sample dated at or after the cutoff (live by timestamp, backtest
\* by numeric day offset), whatever the order of the payload; a sample before
\* the cutoff has no part in it; every emitted value is value/baseline - 1
\* of a kept sample of that date, every kept sample's date has a value when
\* the baseline is positive, and no value is emitted otherwise.
C15_FirstAfterCutoff ==
    called = "all_symphs_monthly" =>
        /\ \/ /\ EarliestLiveValues = {}
              /\ \A r \in Range(final_data) : r.Live = Blank
           \/ \E base \in EarliestLiveValues :
                  IF base <= 0
                  THEN \A r \in Range(final_data) : r.Live = Blank
                  ELSE /\ \A r \in Range(final_data) :
                              r.Live # Blank =>
                                  \E i \in KeptLive :
                                      /\ UtcDateStr(RawLive[i][1]) = r.Date
                                      /\ r.Live = PctReturn(RawLive[i][2], base)
                       /\ \A i \in KeptLive :
                              \E r \in Range(final_data) :
                                  /\ r.Date = UtcDateStr(RawLive[i][1])
                                  /\ r.Live # Blank
        /\ \/ /\ EarliestBacktestValues = {}
              /\ \A r \in Range(final_data) : r.Backtest = Blank
           \/ \E base \in EarliestBacktestValues :
                  IF base <= 0
                  THEN \A r \in Range(final_data) : r.Backtest = Blank
                  ELSE /\ \A r \in Range(final_data) :
                              r.Backtest # Blank =>
                                  \E i \in KeptBacktest :
                                      /\ DateOfDays(IntOf(ExactTimeseries[i][1])) = r.Date
                                      /\ r.Backtest = PctReturn(ExactTimeseries[i][2], base)
                       /\ \A i \in KeptBacktest :
                              \E r \in Range(final_data) :
                                  /\ r.Date = DateOfDays(IntOf(ExactTimeseries[i][1]))
                                  /\ r.Backtest = PctReturn(ExactTimeseries[i][2], base)

\* C15 witness: the cutoff is 1970-01-10; the live payload lists a sample of
\* that day before one of 1970-01-01 that has another value, and the capital
\* series lists key "10" before key "9"; the rows take the sample of
\* 1970-01-10 and the point "9" as baselines.
C15_Witness ==
    /\ called = "all_symphs_monthly"
    /\ start_date_filter = <<1970, 1, 10>>
    /\ RawLive = << <<777600000, 100>>, <<0, 0>> >>
    /\ ExactTimeseries = << << <<1, 0>>, 0 >>, << <<9>>, 9000 >> >>
    /\ final_data = << [Date |-> <<1970, 1, 10>>, Live |-> <<0, 1>>, Backtest |-> <<0, 1>>],
                      [Date |-> <<1970, 1, 11>>, Live |-> Blank, Backtest |-> <<-1, 1>>] >>

====
